---- MODULE Spec2Model ----
(***************************************************************************)
(* A model of homectl: the LEDNET wire protocol engine (src/src/lib.rs,    *)
(* mod prot::led_net) and the capability dispatch that the Commandable     *)
(* derive generates for mult::Device (src/homectl_macros/src/lib.rs).      *)
(***************************************************************************)
EXTENDS Integers, Sequences, FiniteSets, TLC

(***************************************************************************)
(* Protocol words (lib.rs, mod op / mod word / mod temp).  The source      *)
(* writes them in hexadecimal.                                             *)
(***************************************************************************)
SET_POWER == 113
SET_COLOR == 49
GET_STATE == 129
TERMINATOR == 15
ON == 35
OFF == 36
WRITE_COLORS == 240
WRITE_WHITES == 15
MIN_TEMP == 2800
MAX_TEMP == 6500
TEMP_RANGE == MAX_TEMP - MIN_TEMP
STATE_RESP_LEN == 14
PORT == 5577
DISCO_PORT == 48899
SUPPORTED == <<"HF-LPB100-ZJ200">>

\* u8 & u8, bit by bit.
RECURSIVE BitAnd(_, _)
BitAnd(a, b) ==
    IF a = 0 \/ b = 0 THEN 0
    ELSE 2 * BitAnd(a \div 2, b \div 2) + (IF a % 2 = 1 /\ b % 2 = 1 THEN 1 ELSE 0)

WRITE_BOTH == BitAnd(WRITE_COLORS, WRITE_WHITES)

(***************************************************************************)
(* IEEE-754 binary32 arithmetic, round to nearest even, as rustc compiles  *)
(* the f32 expressions of refresh, cct_set and mod temp.  A value is       *)
(* sg * m * 2^e with m = 0 or 2^23 <= m < 2^24.  Every intermediate stays  *)
(* below 2^31.  The magnitudes the program reaches are far from the        *)
(* subnormal and overflow ranges, which are not modelled.                  *)
(***************************************************************************)
P12 == 2 ^ 12
P18 == 2 ^ 18
P23 == 2 ^ 23
P24 == 2 ^ 24

F32Zero == [sg |-> 1, m |-> 0, e |-> 0]

RECURSIVE BitLen(_)
BitLen(n) == IF n = 0 THEN 0 ELSE 1 + BitLen(n \div 2)

\* sg * (M + f) * 2^e, with 0 <= f < 1 and f > 0 iff st, rounded to binary32.
RoundPack(sg, M, st, e) ==
    IF M = 0 THEN F32Zero
    ELSE IF M < P24
    THEN LET up == 24 - BitLen(M)
         IN  [sg |-> sg, m |-> M * (2 ^ up), e |-> e - up]
    ELSE LET k    == BitLen(M) - 24
             q    == M \div (2 ^ k)
             r    == M % (2 ^ k)
             half == 2 ^ (k - 1)
             up   == \/ r > half
                     \/ r = half /\ st
                     \/ r = half /\ ~st /\ q % 2 = 1
             q1   == IF up THEN q + 1 ELSE q
         IN  IF q1 = P24
             THEN [sg |-> sg, m |-> P23, e |-> e + k + 1]
             ELSE [sg |-> sg, m |-> q1, e |-> e + k]

\* `i as f32` for |i| < 2^24 (exact).
F32FromInt(i) ==
    IF i < 0 THEN RoundPack(-1, -i, FALSE, 0) ELSE RoundPack(1, i, FALSE, 0)

RECURSIVE LongDiv(_, _, _, _)
LongDiv(r, d, n, q) ==
    IF n = 0 THEN <<q, r>>
    ELSE IF 2 * r >= d
         THEN LongDiv(2 * r - d, d, n - 1, 2 * q + 1)
         ELSE LongDiv(2 * r, d, n - 1, 2 * q)

\* a / b, b nonzero.
F32Div(a, b) ==
    IF a.m = 0 THEN F32Zero
    ELSE LET qr == LongDiv(a.m % b.m, b.m, 26, a.m \div b.m)
         IN  RoundPack(a.sg * b.sg, qr[1], qr[2] # 0, a.e - b.e - 26)

\* a * b, by 12-bit limbs.
F32Mul(a, b) ==
    IF a.m = 0 \/ b.m = 0 THEN F32Zero
    ELSE LET ah  == a.m \div P12
             al  == a.m % P12
             bh  == b.m \div P12
             bl  == b.m % P12
             mid == ah * bl + al * bh
             low == al * bl + (mid % P12) * P12
             lo  == low % P24
             hi  == ah * bh + mid \div P12 + low \div P24
         IN  RoundPack(a.sg * b.sg, hi * 64 + lo \div P18, lo % P18 # 0,
                       a.e + b.e + 18)

\* a + b with a.e >= b.e, both nonzero: three guard bits and a sticky flag.
F32AddOrdered(a, b) ==
    LET d  == a.e - b.e
        A  == a.m * 8
        B  == IF d > 27 THEN 0 ELSE (b.m * 8) \div (2 ^ d)
        st == IF d > 27 THEN TRUE ELSE (b.m * 8) % (2 ^ d) # 0
    IN  IF a.sg = b.sg
        THEN RoundPack(a.sg, A + B, st, a.e - 3)
        ELSE IF st
             THEN RoundPack(a.sg, A - B - 1, TRUE, a.e - 3)
             ELSE IF A >= B
                  THEN RoundPack(a.sg, A - B, FALSE, a.e - 3)
                  ELSE RoundPack(b.sg, B - A, FALSE, a.e - 3)

F32Add(a, b) ==
    IF a.m = 0 THEN b
    ELSE IF b.m = 0 THEN a
    ELSE IF a.e >= b.e THEN F32AddOrdered(a, b) ELSE F32AddOrdered(b, a)

F32Neg(a) == [a EXCEPT !.sg = -a.sg]

F32Sub(a, b) == F32Add(a, F32Neg(b))

\* floor of |a|, for |a| < 2^24.
F32MagFloor(a) ==
    IF a.m = 0 \/ a.e <= -24 THEN 0
    ELSE IF a.e >= 0 THEN a.m * (2 ^ a.e)
    ELSE a.m \div (2 ^ (-a.e))

F32IsInt(a) ==
    a.m = 0 \/ a.e >= 0 \/ (a.e > -24 /\ a.m % (2 ^ (-a.e)) = 0)

\* `x as u8` / `x as u16`: truncation toward zero.
F32Trunc(a) == a.sg * F32MagFloor(a)

\* f32::ceil, as an integer.
F32Ceil(a) ==
    IF a.sg = 1
    THEN F32MagFloor(a) + (IF F32IsInt(a) THEN 0 ELSE 1)
    ELSE -F32MagFloor(a)

\* a < b
F32Lt(a, b) == F32Sub(a, b).m # 0 /\ F32Sub(a, b).sg = -1

\* f32::clamp(lo, hi)
F32Clamp(a, lo, hi) == IF F32Lt(a, lo) THEN lo ELSE IF F32Lt(hi, a) THEN hi ELSE a

F32One == F32FromInt(1)

\* to_kelvin without the offset of the coldest temperature.
to_kelvin_no_offset(warm, cold) ==
    IF warm # 0 \/ cold # 0
    THEN LET fwarm    == F32FromInt(warm)
             fcold    == F32FromInt(cold)
             wc       == F32Add(fwarm, fcold)
             leftover == F32Sub(F32FromInt(255), wc)
             warm2    == F32Add(fwarm, F32Mul(leftover, F32Div(fwarm, wc)))
             k        == F32Mul(F32Sub(F32FromInt(255), warm2),
                                F32Div(F32FromInt(TEMP_RANGE), F32FromInt(255)))
         IN  F32Trunc(k)
    ELSE 0

(***************************************************************************)
(* mod temp: conversions between the warm/cold byte pair and Kelvin.       *)
(***************************************************************************)
\* temp::to_kelvin(warm: u8, cold: u8) -> u16
to_kelvin(warm, cold) ==
    IF warm # 0 \/ cold # 0
    THEN LET fwarm    == F32FromInt(warm)
             fcold    == F32FromInt(cold)
             wc       == F32Add(fwarm, fcold)
             leftover == F32Sub(F32FromInt(255), wc)
             warm2    == F32Add(fwarm, F32Mul(leftover, F32Div(fwarm, wc)))
             k        == F32Add(F32Mul(F32Sub(F32FromInt(255), warm2),
                                       F32Div(F32FromInt(TEMP_RANGE),
                                              F32FromInt(255))),
                                F32FromInt(MIN_TEMP))
         IN  F32Trunc(k)
    ELSE 0

\* u16::clamp(min, max)
clamp(x, min, max) == IF x < min THEN min ELSE IF x > max THEN max ELSE x

\* to_warm_cold rounding down.
to_warm_cold_floor(kelvin) ==
    LET temp == F32FromInt((IF kelvin < MIN_TEMP THEN MIN_TEMP
                            ELSE IF kelvin > MAX_TEMP THEN MAX_TEMP
                            ELSE kelvin) - MIN_TEMP)
        t    == F32Div(temp, F32FromInt(TEMP_RANGE))
        warm == F32Mul(F32FromInt(255), F32Sub(F32One, t))
        cold == F32Mul(F32FromInt(255), t)
    IN  <<F32Trunc(warm), F32Trunc(cold)>>

\* to_warm_cold returning the channels in the order (cold, warm).
to_warm_cold_swapped(kelvin) ==
    LET temp == F32FromInt(clamp(kelvin, MIN_TEMP, MAX_TEMP) - MIN_TEMP)
        t    == F32Div(temp, F32FromInt(TEMP_RANGE))
        warm == F32Mul(F32FromInt(255), F32Sub(F32One, t))
        cold == F32Mul(F32FromInt(255), t)
    IN  <<F32Ceil(cold), F32Ceil(warm)>>

\* temp::to_warm_cold(kelvin: u16) -> (u8, u8)
to_warm_cold(kelvin) ==
    LET temp == F32FromInt(clamp(kelvin, MIN_TEMP, MAX_TEMP) - MIN_TEMP)
        t    == F32Div(temp, F32FromInt(TEMP_RANGE))
        warm == F32Mul(F32FromInt(255), F32Sub(F32One, t))
        cold == F32Mul(F32FromInt(255), t)
    IN  <<F32Ceil(warm), F32Ceil(cold)>>

\* refresh: cct_b = 1.0 - (0xff - (state[9] + state[11])) as f32 / 0xff as f32
cct_b(warm, cold) ==
    F32Sub(F32One, F32Div(F32FromInt(255 - (warm + cold)), F32FromInt(255)))

\* cct_set multiplying by the brightness as given.
scale_channel_unclamped(channel, brightness) ==
    F32Trunc(F32Mul(F32FromInt(channel), brightness))

\* cct_set: (channel as f32 * brightness.clamp(0.0, 1.0)) as u8
scale_channel(channel, brightness) ==
    F32Trunc(F32Mul(F32FromInt(channel), F32Clamp(brightness, F32Zero, F32One)))

(***************************************************************************)
(* Frame codec.                                                            *)
(***************************************************************************)
\* u8::wrapping_add folded over a byte sequence, starting from acc.
RECURSIVE wrapping_add(_, _)
wrapping_add(acc, bytes) ==
    IF bytes = <<>> THEN acc
    ELSE wrapping_add((acc + Head(bytes)) % 256, Tail(bytes))

\* The same fold with u8::saturating_add.
RECURSIVE saturating_add(_, _)
saturating_add(acc, bytes) ==
    IF bytes = <<>> THEN acc
    ELSE saturating_add(IF acc + Head(bytes) > 255 THEN 255
                        ELSE acc + Head(bytes), Tail(bytes))

\* A fin_cmd whose checksum saturates instead of wrapping.
fin_cmd_saturating(values) == Append(values, saturating_add(0, values))

\* fin_cmd![v1, ..., vn]: the values with their checksum appended.
fin_cmd(values) == Append(values, wrapping_add(0, values))

\* No checksum test at all.
checksum_skipped(state, len) == TRUE

\* refresh: the checksum test of a reply of len bytes,
\* state[len - 1] = fold(0u8, wrapping_add) over state[..len - 1].
checksum_ok(state, len) ==
    state[len] = wrapping_add(0, SubSeq(state, 1, len - 1))

GET_STATE_MSG == fin_cmd(<<GET_STATE, 138, 139>>)
ON_COMMAND    == fin_cmd(<<SET_POWER, ON, TERMINATOR>>)
ON_RESPONSE   == fin_cmd(<<TERMINATOR, SET_POWER, ON>>)
OFF_COMMAND   == fin_cmd(<<SET_POWER, OFF, TERMINATOR>>)
OFF_RESPONSE  == fin_cmd(<<TERMINATOR, SET_POWER, OFF>>)

(***************************************************************************)
(* Colours.  Color::get_hsva and Color::new_hsv belong to the              *)
(* color_processing crate; they are modelled on bytes: the value of a      *)
(* colour is its largest channel, and new_hsv(h, s, v) rescales the        *)
(* channels so that the largest becomes round(255 v).                      *)
(***************************************************************************)
Max3(c) ==
    IF c[1] >= c[2] /\ c[1] >= c[3] THEN c[1]
    ELSE IF c[2] >= c[3] THEN c[2] ELSE c[3]

\* the v of get_hsva(), `as f32`
hsv_value(c) == F32Div(F32FromInt(Max3(c)), F32FromInt(255))

\* round(255 v) for 0 <= v <= 1
value_byte(v) ==
    F32Trunc(F32Add(F32Mul(F32FromInt(255), v), F32Div(F32One, F32FromInt(2))))

\* Color::new_hsv(hue of c, saturation of c, v)
new_hsv(c, v) ==
    LET V == value_byte(v)
        M == Max3(c)
    IN  IF M = 0 THEN <<V, V, V>>
        ELSE <<(2 * c[1] * V + M) \div (2 * M),
               (2 * c[2] * V + M) \div (2 * M),
               (2 * c[3] * V + M) \div (2 * M)>>

(***************************************************************************)
(* struct LedNet: the device session and its shadow state.                 *)
(***************************************************************************)
\* disco_recv: the struct as built before its first refresh.
LedNetDefault(addr, model) ==
    [addr            |-> addr,
     model           |-> model,
     is_on           |-> FALSE,
     rgb_color_bytes |-> <<0, 0, 0>>,
     cct_bytes       |-> <<0, 0>>,
     rgb_brightness  |-> F32Zero,
     cct_temperature |-> 0,
     cct_brightness  |-> F32Zero]

\* refresh leaving the shadow state as it was.
decode_state_kept(d, state) == d

\* The update with every offset of the source taken as one-based.
decode_state_shifted(d, state) ==
    [d EXCEPT
        !.is_on           = (state[2] = ON),
        !.rgb_color_bytes = <<state[6], state[7], state[8]>>,
        !.cct_bytes       = <<state[9], state[11]>>,
        !.rgb_brightness  = hsv_value(<<state[6], state[7], state[8]>>),
        !.cct_temperature = to_kelvin(state[9], state[11]),
        !.cct_brightness  = cct_b(state[9], state[11])]

\* refresh: the update of the shadow state from a state reply that passed
\* the checksum test.
decode_state(d, state) ==
    [d EXCEPT
        !.is_on           = (state[3] = ON),
        !.rgb_color_bytes = <<state[7], state[8], state[9]>>,
        !.cct_bytes       = <<state[10], state[12]>>,
        !.rgb_brightness  = hsv_value(<<state[7], state[8], state[9]>>),
        !.cct_temperature = to_kelvin(state[10], state[12]),
        !.cct_brightness  = cct_b(state[10], state[12])]

\* Getters.
is_on(d)           == d.is_on
address(d)         == d.addr.ip
port(d)            == d.addr.port
rgb_exact(d)       == d.rgb_color_bytes
rgb_color(d)       == new_hsv(rgb_exact(d), F32One)
rgb_brightness(d)  == d.rgb_brightness
cct_temperature(d) == d.cct_temperature
cct_brightness(d)  == d.cct_brightness

\* The SET_COLOR frame every colour setter sends.
color_frame(rgb, warm, cold, mask) ==
    fin_cmd(<<SET_COLOR, rgb[1], rgb[2], rgb[3], warm, cold, mask, TERMINATOR>>)

\* The command frame of each setter (the setter's write_command argument).
set_on(on)            == IF on THEN ON_COMMAND ELSE OFF_COMMAND
rgb_set_exact(color)  == color_frame(color, 0, 0, WRITE_COLORS)
rgb_set(color, b)     == rgb_set_exact(new_hsv(color, b))
rgb_set_color(d, color)  == rgb_set(color, d.rgb_brightness)
rgb_set_brightness(d, b) == rgb_set(rgb_color(d), b)
cct_set(kelvin, b) ==
    LET wcold == to_warm_cold(kelvin)
    IN  color_frame(<<0, 0, 0>>, scale_channel(wcold[1], b),
                    scale_channel(wcold[2], b), WRITE_WHITES)
cct_set_temperature(d, kelvin) == cct_set(kelvin, d.cct_brightness)
cct_set_brightness(d, b)       == cct_set(d.cct_temperature, b)
set_ww_cw(ww, cw) == color_frame(<<0, 0, 0>>, ww, cw, WRITE_WHITES)
set_rgb_cct(color, kelvin) ==
    LET wcold == to_warm_cold(kelvin)
    IN  color_frame(color, wcold[1], wcold[2], WRITE_BOTH)

(***************************************************************************)
(* mult: errors, results, commands and the capability handlers.            *)
(***************************************************************************)
NoError == [kind |-> "None", ekind |-> "", msg |-> ""]
CommandNotSupported == [kind |-> "CommandNotSupported", ekind |-> "", msg |-> ""]
\* impl From<io::Error> for Error
Io(ekind, msg) == [kind |-> "Io", ekind |-> ekind, msg |-> msg]

None == [kind |-> "None"]
Ok(resp) == [ok |-> TRUE, resp |-> resp, err |-> NoError]
Err(e)   == [ok |-> FALSE, resp |-> None, err |-> e]

\* An Error variant of its own for the checksum failure.
ChecksumMismatchError ==
    [kind |-> "ChecksumMismatch", ekind |-> "",
     msg |-> "Invalid checksum of state query response"]

\* The io::Error values the session can meet.
ConnectError  == Io("ConnectionRefused", "")
WriteError    == Io("BrokenPipe", "")
ReadError     == Io("WouldBlock", "")
ChecksumError == Io("Other", "Invalid checksum of state query response")
ReplyError    == Io("Other", "Incorrect response")

Black == <<0, 0, 0>>
Cmd(name, color, b, kelvin) ==
    [name |-> name, color |-> color, brightness |-> b, kelvin |-> kelvin,
     white |-> <<0, 0>>]

\* enum Command, by variant name.
BaseNames == {"On", "Off", "GetAddress", "GetPort", "IsOn"}
RgbNames  == {"RgbSet", "RgbSetExact", "RgbSetColor", "RgbSetBrightness",
              "RgbGetColor", "RgbGetBrightness", "RgbGetExact"}
CctNames  == {"CctSet", "CctSetTemperature", "CctSetBrightness",
              "CctGetTemperature", "CctGetBrightness"}
MonoNames == {"MonoSet", "MonoGet"}
CommandNames == BaseNames \cup RgbNames \cup CctNames \cup MonoNames

\* CctCommands answering RgbGetBrightness too (both return
\* Response::Brightness).
HandlesBrightnessShared(trait) ==
    CASE trait = "SmartDeviceCommands" -> BaseNames
      [] trait = "RgbCommands"         -> RgbNames
      [] trait = "CctCommands"         -> CctNames \cup {"RgbGetBrightness"}
      [] trait = "MonoCommands"        -> MonoNames

\* The match arms of each capability handler other than `_`.
Handles(trait) ==
    CASE trait = "SmartDeviceCommands" -> BaseNames
      [] trait = "RgbCommands"         -> RgbNames
      [] trait = "CctCommands"         -> CctNames
      [] trait = "MonoCommands"        -> MonoNames

\* The arms that return Ok(Some(Response::..)), and their value.
GetterNames == {"GetAddress", "GetPort", "IsOn", "RgbGetColor", "RgbGetBrightness",
                "RgbGetExact", "CctGetTemperature", "CctGetBrightness", "MonoGet"}

\* RgbGetColor answering with the exact colour.
ResponseExact(d, name) ==
    CASE name = "GetAddress"        -> [kind |-> "Address",     val |-> address(d)]
      [] name = "GetPort"           -> [kind |-> "Port",        val |-> port(d)]
      [] name = "IsOn"              -> [kind |-> "IsOn",        val |-> is_on(d)]
      [] name = "RgbGetColor"       -> [kind |-> "Color",       val |-> rgb_exact(d)]
      [] name = "RgbGetBrightness"  -> [kind |-> "Brightness",  val |-> rgb_brightness(d)]
      [] name = "RgbGetExact"       -> [kind |-> "Color",       val |-> rgb_exact(d)]
      [] name = "CctGetTemperature" -> [kind |-> "Temperature", val |-> cct_temperature(d)]
      [] name = "CctGetBrightness"  -> [kind |-> "Brightness",  val |-> cct_brightness(d)]

\* CctGetTemperature answering with a Brightness.
ResponseMiskinded(d, name) ==
    CASE name = "GetAddress"        -> [kind |-> "Address",     val |-> address(d)]
      [] name = "GetPort"           -> [kind |-> "Port",        val |-> port(d)]
      [] name = "IsOn"              -> [kind |-> "IsOn",        val |-> is_on(d)]
      [] name = "RgbGetColor"       -> [kind |-> "Color",       val |-> rgb_color(d)]
      [] name = "RgbGetBrightness"  -> [kind |-> "Brightness",  val |-> rgb_brightness(d)]
      [] name = "RgbGetExact"       -> [kind |-> "Color",       val |-> rgb_exact(d)]
      [] name = "CctGetTemperature" -> [kind |-> "Brightness",  val |-> cct_temperature(d)]
      [] name = "CctGetBrightness"  -> [kind |-> "Brightness",  val |-> cct_brightness(d)]

\* The arms that return Ok(Some(Response::..)): the variant and its value.
Response(d, name) ==
    CASE name = "GetAddress"        -> [kind |-> "Address",     val |-> address(d)]
      [] name = "GetPort"           -> [kind |-> "Port",        val |-> port(d)]
      [] name = "IsOn"              -> [kind |-> "IsOn",        val |-> is_on(d)]
      [] name = "RgbGetColor"       -> [kind |-> "Color",       val |-> rgb_color(d)]
      [] name = "RgbGetBrightness"  -> [kind |-> "Brightness",  val |-> rgb_brightness(d)]
      [] name = "RgbGetExact"       -> [kind |-> "Color",       val |-> rgb_exact(d)]
      [] name = "CctGetTemperature" -> [kind |-> "Temperature", val |-> cct_temperature(d)]
      [] name = "CctGetBrightness"  -> [kind |-> "Brightness",  val |-> cct_brightness(d)]

\* A setter that does not refresh after its command.
ExchangesWithoutRefresh(name) ==
    IF name = "refresh" THEN <<"refresh">> ELSE <<"write">>

\* Every setter going straight to its write_command call.
ExchangesWriteFirst(name) ==
    IF name = "refresh" THEN <<"refresh">> ELSE <<"write", "refresh">>

\* The network exchanges of each setter, in order: "write" is its
\* write_command call, "refresh" a refresh call.
Exchanges(name) ==
    CASE name \in {"RgbSetColor", "RgbSetBrightness",
                   "CctSetTemperature", "CctSetBrightness"}
              -> <<"refresh", "write", "refresh">>
      [] name = "refresh" -> <<"refresh">>
      [] OTHER -> <<"write", "refresh">>

\* The arguments of the setter's write_command call: the frame, computed
\* from the shadow state d as it is when the call is made, and the
\* expected reply.
CommandFrame(d, c) ==
    CASE c.name = "On"                -> set_on(TRUE)
      [] c.name = "Off"               -> set_on(FALSE)
      [] c.name = "RgbSet"            -> rgb_set(c.color, c.brightness)
      [] c.name = "RgbSetExact"       -> rgb_set_exact(c.color)
      [] c.name = "RgbSetColor"       -> rgb_set_color(d, c.color)
      [] c.name = "RgbSetBrightness"  -> rgb_set_brightness(d, c.brightness)
      [] c.name = "CctSet"            -> cct_set(c.kelvin, c.brightness)
      [] c.name = "CctSetTemperature" -> cct_set_temperature(d, c.kelvin)
      [] c.name = "CctSetBrightness"  -> cct_set_brightness(d, c.brightness)
      [] c.name = "set_ww_cw"         -> set_ww_cw(c.white[1], c.white[2])
      [] c.name = "set_rgb_cct"       -> set_rgb_cct(c.color, c.kelvin)

Expected(c) ==
    CASE c.name = "On"  -> ON_RESPONSE
      [] c.name = "Off" -> OFF_RESPONSE
      [] OTHER          -> <<>>

\* A comparison that leaves the checksum byte of the reply out.
response_matches_payload(response, expected) ==
    \A i \in 1..(Len(expected) - 1) : response[i] = expected[i]

\* write_command: `response != expected`, negated.
response_matches(response, expected) == response = expected

\* enum Device: #[homectl(cmd = "RgbCommands", cmd = "CctCommands")] LedNet
DeviceCmds == <<"RgbCommands", "CctCommands">>
\* dev_derive: const DEFAULT_CMDS
DEFAULT_CMDS == <<"SmartDeviceCommands">>
\* The default traits tried first.
commandsDefaultFirst == DEFAULT_CMDS \o DeviceCmds
\* The default traits left out.
commandsWithoutDefault == DeviceCmds
\* dev_derive: the command traits of the variant, the default ones pushed last.
commands == DeviceCmds \o DEFAULT_CMDS

\* dev_derive, the generated match arm: Err(CommandNotSupported) => (),
\* anything else => return res.
\* An arm `_ => ()`, and an arm `Err(_) => ()`.
TriesNextAlways(res) == TRUE
TriesNextOnAnyError(res) == ~res.ok
TriesNext(res) == ~res.ok /\ res.err = CommandNotSupported

(***************************************************************************)
(* The lamp: the device at the other end of the control connection.  It    *)
(* stores what a frame tells it to, and reports what it stores.            *)
(***************************************************************************)
\* The lamp after it received a whole command frame.
lamp_recv(l, frame) ==
    IF frame[1] = SET_POWER
    THEN [l EXCEPT !.power = (frame[2] = ON)]
    ELSE IF frame[1] = SET_COLOR
    THEN [l EXCEPT
            !.rgb   = IF BitAnd(frame[7], WRITE_COLORS) = WRITE_COLORS
                      THEN <<frame[2], frame[3], frame[4]>> ELSE @,
            !.white = IF BitAnd(frame[7], WRITE_WHITES) = WRITE_WHITES
                      THEN <<frame[5], frame[6]>> ELSE @]
    ELSE l

\* Its 14-byte state reply; fill holds the seven bytes refresh never reads.
lamp_state(l, fill) ==
    fin_cmd(<<fill[1], fill[2], IF l.power THEN ON ELSE OFF,
              fill[3], fill[4], fill[5],
              l.rgb[1], l.rgb[2], l.rgb[3],
              l.white[1], fill[6], l.white[2], fill[7]>>)

\* A frame whose last byte was altered on the way.
corrupted(frame) ==
    [frame EXCEPT ![Len(frame)] = (@ + 1) % 256]

(***************************************************************************)
(* Sample inputs.                                                          *)
(***************************************************************************)
Half      == F32Div(F32One, F32FromInt(2))
TwoFifths == F32Div(F32FromInt(2), F32FromInt(5))
ThreeHalves == F32Div(F32FromInt(3), F32FromInt(2))

\* The longest session, in calls.
MaxCalls == 2

Colors        == {<<16, 32, 48>>}
RgbLevels     == {Half}
CctLevels     == {TwoFifths, ThreeHalves}
Kelvins       == {2000, 4650}
CctPairs      == {<<2000, ThreeHalves>>, <<4650, TwoFifths>>}
Whites        == {<<5, 7>>}
Fillers       == {<<0, 0, 0, 0, 0, 0, 0>>, <<129, 68, 97, 1, 16, 3, 15>>}
Addr          == [ip |-> "192.168.1.212", port |-> PORT]

InitLamps ==
    {[power |-> TRUE,  rgb |-> <<16, 32, 48>>, white |-> <<5, 7>>],
     [power |-> FALSE, rgb |-> Black,          white |-> <<0, 0>>]}

\* Every Command value the model issues.
Commands ==
    {Cmd(n, Black, F32Zero, 0) :
        n \in {"On", "Off", "GetAddress", "GetPort", "IsOn", "RgbGetColor",
               "RgbGetBrightness", "RgbGetExact", "CctGetTemperature",
               "CctGetBrightness", "MonoGet"}}
    \cup {Cmd("RgbSet", c, b, 0) : c \in Colors, b \in RgbLevels}
    \cup {Cmd(n, c, F32Zero, 0) : n \in {"RgbSetExact", "RgbSetColor"}, c \in Colors}
    \cup {Cmd("RgbSetBrightness", Black, b, 0) : b \in RgbLevels}
    \cup {Cmd("CctSet", Black, p[2], p[1]) : p \in CctPairs}
    \cup {Cmd("CctSetTemperature", Black, F32Zero, k) : k \in Kelvins}
    \cup {Cmd(n, Black, b, 0) : n \in {"CctSetBrightness", "MonoSet"}, b \in CctLevels}

\* The LedNet methods called without going through Device::exec.
Methods ==
    {Cmd("refresh", Black, F32Zero, 0)}
    \cup {[Cmd("set_ww_cw", Black, F32Zero, 0) EXCEPT !.white = w] : w \in Whites}
    \cup {Cmd("set_rgb_cct", c, F32Zero, 4650) : c \in Colors}

NoCommand == Cmd("", Black, F32Zero, 0)

(***************************************************************************)
(* The state.                                                              *)
(***************************************************************************)
VARIABLES
    dev,       \* the LedNet struct
    lamp,      \* what the lamp stores: power, rgb, white
    pc,        \* "idle", "dispatch", "connect", "write", "read", "done"
    command,   \* the Command (or method call) being executed
    idx,       \* exec: the capability being tried (0: a direct method call)
    invoked,   \* exec: the capability handlers invoked so far, in order
    returned,  \* exec: what each invoked handler returned
    plan,      \* the exchanges the running setter still has to make
    conn,      \* the ids of the open TCP connections
    io,        \* the network events of the current call, in order
    result,    \* what the call returned
    dev0,      \* the LedNet struct when the current call began
    seen,      \* the lamp as the last successful state query saw it
    ext,       \* another client changed the lamp since that query
    calls,     \* the calls made in this session
    codec,     \* a frame being built, altered and validated
    dpc,       \* discovery: "idle", "recv", "done"
    dmode,     \* discovery: "discover" or "from_address"
    target,    \* from_address: the address probed
    devs,      \* discover: the devices gathered so far
    heard,     \* discovery: what each disco_recv call met, in order
    unread,    \* discover: datagrams that reached the socket after the loop ended
    dresult,   \* what discover / from_address returned
    probe      \* one call of refresh, to_kelvin or to_warm_cold on given input

svars == <<dev, lamp, pc, command, idx, invoked, returned, plan, conn, io,
           result, dev0, seen, ext, calls>>
dvars == <<dpc, dmode, target, devs, heard, unread, dresult>>
vars == <<svars, codec, dvars, probe>>

Event(ev, id, data) == [ev |-> ev, id |-> id, data |-> data]

NoResult == [ok |-> FALSE, resp |-> None, err |-> NoError]

CodecIdle ==
    codec = [stage |-> "idle", payload |-> <<>>, frame |-> <<>>,
             altered |-> FALSE, verdict |-> FALSE]

ProbeIdle == probe = [fn |-> "", arg |-> <<>>, out |-> <<>>, done |-> FALSE]

DiscoIdle ==
    /\ dpc = "idle"
    /\ dmode = ""
    /\ target = ""
    /\ devs = <<>>
    /\ heard = <<>>
    /\ unread = <<>>
    /\ dresult = NoResult

\* A session starts from a struct that disco_recv built and refreshed.
SessionAt(l) ==
    /\ lamp = l
    /\ \E fill \in Fillers :
          dev = decode_state(LedNetDefault(Addr, SUPPORTED[1]), lamp_state(lamp, fill))
    /\ pc = "idle"
    /\ command = NoCommand
    /\ idx = 0
    /\ invoked = <<>>
    /\ returned = <<>>
    /\ plan = <<>>
    /\ conn = {}
    /\ io = <<>>
    /\ result = NoResult
    /\ dev0 = dev
    /\ seen = lamp
    /\ ext = FALSE
    /\ calls = 0

Init == (\E l \in InitLamps : SessionAt(l)) /\ CodecIdle /\ DiscoIdle /\ ProbeIdle

(***************************************************************************)
(* Device::exec and the LedNet methods, one action per step.               *)
(***************************************************************************)
\* The id the next TcpStream::connect gets, and the open connection's id.
NextId == Len(SelectSeq(io, LAMBDA e : e.ev \in {"connect", "connect_failed"})) + 1
CurId  == CHOOSE id \in conn : TRUE

\* Device::exec(&mut self, command) is entered.
Exec ==
    /\ pc \in {"idle", "done"}
    /\ calls < MaxCalls
    /\ calls' = calls + 1
    /\ \E c \in Commands : command' = c
    /\ pc' = "dispatch"
    /\ idx' = 1
    /\ invoked' = <<>>
    /\ returned' = <<>>
    /\ plan' = <<>>
    /\ io' = <<>>
    /\ result' = NoResult
    /\ dev0' = dev
    /\ UNCHANGED <<dev, lamp, conn, seen, ext, codec, dvars, probe>>

\* A LedNet method is called directly.
Call ==
    /\ pc \in {"idle", "done"}
    /\ calls < MaxCalls
    /\ calls' = calls + 1
    /\ \E c \in Methods : command' = c /\ plan' = Exchanges(c.name)
    /\ pc' = "connect"
    /\ idx' = 0
    /\ invoked' = <<>>
    /\ returned' = <<>>
    /\ io' = <<>>
    /\ result' = NoResult
    /\ dev0' = dev
    /\ UNCHANGED <<dev, lamp, conn, seen, ext, codec, dvars, probe>>

\* The running handler (or method) returns res.  In exec, the generated
\* arm goes on to the next capability or returns; after the last arm exec
\* returns Err(CommandNotSupported).
Return(res) ==
    /\ returned' = IF idx = 0 THEN returned ELSE Append(returned, res)
    /\ IF idx # 0 /\ TriesNext(res) /\ idx < Len(commands)
       THEN /\ pc' = "dispatch"
            /\ idx' = idx + 1
            /\ result' = result
       ELSE /\ pc' = "done"
            /\ idx' = idx
            /\ result' = IF idx # 0 /\ TriesNext(res)
                         THEN Err(CommandNotSupported) ELSE res

\* `?`: the running setter gives up with error e.
Fail(e) == plan' = <<>> /\ Return(Err(e))

\* The exchange at the head of the plan succeeded.
Continue ==
    /\ plan' = Tail(plan)
    /\ IF Tail(plan) = <<>>
       THEN Return(Ok(None))
       ELSE pc' = "connect" /\ UNCHANGED <<idx, returned, result>>

\* exec: (dev as &mut dyn #cmds).exec(command), for the capability at idx.
TryCapability ==
    /\ pc = "dispatch"
    /\ invoked' = Append(invoked, commands[idx])
    /\ IF command.name \notin Handles(commands[idx])
       THEN Return(Err(CommandNotSupported)) /\ plan' = plan
       ELSE IF command.name \in GetterNames
       THEN Return(Ok(Response(dev, command.name))) /\ plan' = plan
       ELSE /\ pc' = "connect"
            /\ plan' = Exchanges(command.name)
            /\ UNCHANGED <<idx, returned, result>>
    /\ UNCHANGED <<dev, lamp, command, conn, io, dev0, seen, ext, calls, codec, dvars, probe>>

\* refresh / write_command: TcpStream::connect(self.addr)?
Connect ==
    /\ pc = "connect"
    /\ \/ /\ conn' = conn \cup {NextId}
          /\ io' = Append(io, Event("connect", NextId, <<>>))
          /\ pc' = "write"
          /\ UNCHANGED <<idx, returned, result, plan>>
       \/ /\ conn' = conn
          /\ io' = Append(io, Event("connect_failed", NextId, <<>>))
          /\ Fail(ConnectError)
    /\ UNCHANGED <<dev, lamp, command, invoked, dev0, seen, ext, calls, codec, dvars, probe>>

\* The stream outliving the function that opened it.
CloseNever(events) ==
    /\ io' = io \o events
    /\ conn' = conn

\* The stream is dropped when the function that opened it returns.
Close(events) ==
    /\ io' = io \o events \o <<Event("close", CurId, <<>>)>>
    /\ conn' = conn \ {CurId}

\* refresh / write_command: stream.write_all(..)?
WriteAll ==
    /\ pc = "write"
    /\ LET frame == IF Head(plan) = "refresh" THEN GET_STATE_MSG
                    ELSE CommandFrame(dev, command)
       IN  \/ /\ io' = Append(io, Event("write", CurId, frame))
              /\ lamp' = lamp_recv(lamp, frame)
              /\ pc' = "read"
              /\ UNCHANGED <<conn, idx, returned, result, plan>>
           \/ /\ Close(<<>>)
              /\ lamp' = lamp
              /\ Fail(WriteError)
    /\ UNCHANGED <<dev, command, invoked, dev0, seen, ext, calls, codec, dvars, probe>>

\* What the lamp may answer to a state query, and to a command.
StateReplies(l) ==
    {lamp_state(l, fill) : fill \in Fillers}
    \cup {corrupted(lamp_state(l, <<0, 0, 0, 0, 0, 0, 0>>))}

Responses(c) ==
    IF Expected(c) = <<>> THEN {<<>>}
    ELSE {ON_RESPONSE, OFF_RESPONSE, corrupted(Expected(c))}

\* refresh / write_command: read_response(..)?, the test of what was
\* read, and for refresh the update of the shadow state.
ReadResponse ==
    /\ pc = "read"
    /\ \/ /\ Head(plan) = "refresh" \/ Expected(command) # <<>>
          /\ Close(<<Event("read_failed", CurId, <<>>)>>)
          /\ Fail(ReadError)
          /\ UNCHANGED <<dev, seen, ext>>
       \/ /\ Head(plan) = "refresh"
          /\ \E state \in StateReplies(lamp) :
                /\ Close(<<Event("read", CurId, state)>>)
                /\ IF checksum_ok(state, STATE_RESP_LEN)
                   THEN /\ dev' = decode_state(dev, state)
                        /\ seen' = lamp
                        /\ ext' = FALSE
                        /\ Continue
                   ELSE /\ Fail(ChecksumError)
                        /\ UNCHANGED <<dev, seen, ext>>
       \/ /\ Head(plan) = "write"
          /\ \E response \in Responses(command) :
                /\ Close(<<Event("read", CurId, response)>>)
                /\ IF response_matches(response, Expected(command))
                   THEN Continue
                   ELSE Fail(ReplyError)
          /\ UNCHANGED <<dev, seen, ext>>
    /\ UNCHANGED <<lamp, command, invoked, dev0, calls, codec, dvars, probe>>

\* Another client of the lamp sets its white channels (what it does
\* between two state queries of this session counts as one change).
ExternalClient ==
    /\ ~ext
    /\ lamp.white # <<255, 255>>
    /\ lamp' = [lamp EXCEPT !.white = <<255, 255>>]
    /\ ext' = TRUE
    /\ UNCHANGED <<dev, pc, command, idx, invoked, returned, plan, conn, io,
                   result, dev0, seen, calls, codec, dvars, probe>>

Next ==
    \/ Exec
    \/ Call
    \/ TryCapability
    \/ Connect
    \/ WriteAll
    \/ ReadResponse

\* A session on a lamp that has no other client.
Spec == Init /\ [][Next]_vars

NextExt == Next \/ ExternalClient

\* A session on a lamp that another client uses too.
SpecExt == Init /\ [][NextExt]_vars

(***************************************************************************)
(* The frame codec on its own: a payload is framed by fin_cmd, its last    *)
(* byte may be altered on the way, and the receiver applies the checksum   *)
(* test of refresh to what arrives.                                        *)
(***************************************************************************)
\* The longest payload framed.
MaxPayload == 3

PayloadBytes == {0, 1, 255}

RECURSIVE SeqsUpTo(_, _)
SeqsUpTo(S, n) ==
    IF n = 0 THEN {<<>>}
    ELSE LET shorter == SeqsUpTo(S, n - 1)
         IN  shorter \cup {Append(p, b) : p \in shorter, b \in S}

Payloads == SeqsUpTo(PayloadBytes, MaxPayload) \ {<<>>}

InitFrame ==
    /\ SessionAt([power |-> FALSE, rgb |-> Black, white |-> <<0, 0>>])
    /\ DiscoIdle
    /\ ProbeIdle
    /\ \E p \in Payloads :
          codec = [stage |-> "payload", payload |-> p, frame |-> <<>>,
                   altered |-> FALSE, verdict |-> FALSE]

\* fin_cmd![..] frames the payload.
Build ==
    /\ codec.stage = "payload"
    /\ codec' = [codec EXCEPT !.stage = "frame",
                              !.frame = fin_cmd(codec.payload)]
    /\ UNCHANGED <<svars, dvars, probe>>

\* The last byte of the frame is replaced by a different one.
Alter ==
    /\ codec.stage = "frame"
    /\ ~codec.altered
    /\ \E b \in (0..255) \ {codec.frame[Len(codec.frame)]} :
          codec' = [codec EXCEPT !.frame[Len(codec.frame)] = b,
                                 !.altered = TRUE]
    /\ UNCHANGED <<svars, dvars, probe>>

\* The receiver tests the checksum as refresh does.
Validate ==
    /\ codec.stage = "frame"
    /\ codec' = [codec EXCEPT
                    !.stage = "checked",
                    !.verdict = checksum_ok(codec.frame, Len(codec.frame))]
    /\ UNCHANGED <<svars, dvars, probe>>

NextFrame == Build \/ Alter \/ Validate

SpecFrame == InitFrame /\ [][NextFrame]_vars

(***************************************************************************)
(* Discovery: LedNet::discover and LedNet::from_address over disco_send    *)
(* and disco_recv.  A datagram's bytes are modelled as a sequence of text  *)
(* tokens: "," is the separator, NotUtf8 a byte sequence that is not       *)
(* UTF-8, and any other token a run of characters without a comma.  The    *)
(* wrappers that the derive generates for Device hand the result of the    *)
(* only device type through unchanged.                                     *)
(***************************************************************************)
Some(v) == [kind |-> "Some", val |-> v]

BindError   == Io("AddrInUse", "")
SendError   == Io("Other", "Could not write full discovery message")
RecvTimeout == Io("WouldBlock", "")
RecvError   == Io("ConnectionRefused", "")

NotUtf8 == "\\xff"

\* std::str::from_utf8(&buf[..len]).is_ok()
from_utf8_ok(buf) == \A i \in 1..Len(buf) : buf[i] # NotUtf8

\* response.split(','), as the sequence of its fields.
RECURSIVE split(_, _)
split(text, sep) ==
    IF \A i \in 1..Len(text) : text[i] # sep
    THEN <<text>>
    ELSE LET i == CHOOSE i \in 1..Len(text) :
                     /\ text[i] = sep
                     /\ \A j \in 1..(i - 1) : text[j] # sep
         IN  <<SubSeq(text, 1, i - 1)>>
             \o split(SubSeq(text, i + 1, Len(text)), sep)

\* fields.nth(n)
nth(fields, n) == IF Len(fields) > n THEN Some(fields[n + 1]) ELSE None

\* A find that takes any id starting with an allow-listed one.
find_supported_prefix(m_id) ==
    IF \E i \in 1..Len(SUPPORTED) : m_id # <<>> /\ m_id[1] = SUPPORTED[i]
    THEN Some(SUPPORTED[CHOOSE i \in 1..Len(SUPPORTED) : m_id[1] = SUPPORTED[i]])
    ELSE None

\* SUPPORTED.iter().find(|&&e| e == m_id)
find_supported(m_id) ==
    IF \E i \in 1..Len(SUPPORTED) : <<SUPPORTED[i]>> = m_id
    THEN Some(SUPPORTED[CHOOSE i \in 1..Len(SUPPORTED) : <<SUPPORTED[i]>> = m_id])
    ELSE None

\* refresh(&mut self), as one step: the struct afterwards and the result.
\* net tells what the network does: whether the connection opens, whether
\* the query is written, and the bytes that come back before the timeout.
\* io lists what the call did on the network.
refresh(d, net) ==
    IF ~net.connect
    THEN [dev |-> d, res |-> Err(ConnectError), io |-> <<"connect_failed">>]
    ELSE IF ~net.write
    THEN [dev |-> d, res |-> Err(WriteError), io |-> <<"connect", "write_failed">>]
    ELSE IF Len(net.reply) < STATE_RESP_LEN
    THEN [dev |-> d, res |-> Err(ReadError),
          io |-> <<"connect", "write", "read_failed">>]
    ELSE IF ~checksum_ok(net.reply, STATE_RESP_LEN)
    THEN [dev |-> d, res |-> Err(ChecksumError),
          io |-> <<"connect", "write", "read">>]
    ELSE [dev |-> decode_state(d, net.reply), res |-> Ok(None),
          io |-> <<"connect", "write", "read">>]

\* A disco_recv that drops the reply of a device whose refresh failed.
disco_recv_forgiving(a) ==
    IF a.ev = "timeout" THEN [res |-> Err(RecvTimeout), io |-> <<>>]
    ELSE IF a.ev = "error" THEN [res |-> Err(RecvError), io |-> <<>>]
    ELSE IF ~from_utf8_ok(a.buf) THEN [res |-> Ok(None), io |-> <<>>]
    ELSE LET m_id == nth(split(a.buf, ","), 2)
         IN  IF m_id.kind = "None" THEN [res |-> Ok(None), io |-> <<>>]
             ELSE LET model == find_supported(m_id.val)
                  IN  IF model.kind = "None" THEN [res |-> Ok(None), io |-> <<>>]
                      ELSE LET r == refresh(
                                      LedNetDefault([ip |-> a.from, port |-> PORT],
                                                    model.val),
                                      a.net)
                           IN  [res |-> IF r.res.ok THEN Ok(Some(r.dev))
                                        ELSE Ok(None),
                                io  |-> r.io]

\* disco_recv(socket, timeout) when recv_from meets the arrival a: the
\* result, and in io what the refresh it called did on the network.
disco_recv(a) ==
    IF a.ev = "timeout" THEN [res |-> Err(RecvTimeout), io |-> <<>>]
    ELSE IF a.ev = "error" THEN [res |-> Err(RecvError), io |-> <<>>]
    ELSE IF ~from_utf8_ok(a.buf) THEN [res |-> Ok(None), io |-> <<>>]
    ELSE LET m_id == nth(split(a.buf, ","), 2)
         IN  IF m_id.kind = "None" THEN [res |-> Ok(None), io |-> <<>>]
             ELSE LET model == find_supported(m_id.val)
                  IN  IF model.kind = "None" THEN [res |-> Ok(None), io |-> <<>>]
                      ELSE LET r == refresh(
                                      LedNetDefault([ip |-> a.from, port |-> PORT],
                                                    model.val),
                                      a.net)
                           IN  [res |-> IF r.res.ok THEN Ok(Some(r.dev))
                                        ELSE Err(r.res.err),
                                io  |-> r.io]

\* A discover that answers Some of an empty list.
discover_result_some(ds) == Ok(Some(ds))

\* discover: what it returns once the receive loop has ended.
discover_result(ds) == IF ds # <<>> THEN Ok(Some(ds)) ELSE Ok(None)

\* A from_address that takes a failed receive for an absent device.
from_address_result_lenient(r) ==
    IF r.ok /\ r.resp.kind = "Some" THEN Ok(Some(r.resp.val)) ELSE Ok(None)

\* from_address: what it returns from the result of its one disco_recv.
from_address_result(r) ==
    IF ~r.ok THEN Err(r.err)
    ELSE IF r.resp.kind = "Some" THEN Ok(Some(r.resp.val))
    ELSE Ok(None)

\* The most datagrams that reach the socket during one call.
MaxDatagrams == 2

Hosts == {"192.168.1.212", "192.168.1.77"}
HostLamp(h) ==
    IF h = "192.168.1.212"
    THEN [power |-> TRUE,  rgb |-> <<16, 32, 48>>, white |-> <<5, 7>>]
    ELSE [power |-> FALSE, rgb |-> Black,          white |-> <<0, 0>>]

\* What a datagram may hold.
Replies(h) ==
    {<<h, ",", "F0FE6B5A6D68", ",", "HF-LPB100-ZJ200">>,
     <<h, ",", "F0FE6B5A6D68", ",", "HF-LPB100-ZJ200", ",", "1">>,
     <<h, ",", "F0FE6B5A6D68", ",", "HF-LPB100-ZJ200", "\n">>,
     <<h, ",", "F0FE6B5A6D68", ",", "HF-A11">>,
     <<h, ",", "F0FE6B5A6D68">>,
     <<NotUtf8, ",", "F0FE6B5A6D68", ",", "HF-LPB100-ZJ200">>}

NoNet == [connect |-> FALSE, write |-> FALSE, reply |-> <<>>]

\* What the network may do to the refresh of a lamp found at h.
Nets(h) ==
    {NoNet,
     [connect |-> TRUE, write |-> FALSE, reply |-> <<>>],
     [connect |-> TRUE, write |-> TRUE,  reply |-> <<>>],
     [connect |-> TRUE, write |-> TRUE,
      reply |-> lamp_state(HostLamp(h), <<129, 68, 97, 1, 16, 3, 15>>)],
     [connect |-> TRUE, write |-> TRUE,
      reply |-> corrupted(lamp_state(HostLamp(h), <<129, 68, 97, 1, 16, 3, 15>>))]}

Reaches(buf) ==
    /\ from_utf8_ok(buf)
    /\ nth(split(buf, ","), 2).kind = "Some"
    /\ find_supported(nth(split(buf, ","), 2).val).kind = "Some"

\* What one recv_from may meet.
Arrivals ==
    {[ev |-> e, from |-> "", buf |-> <<>>, net |-> NoNet] :
        e \in {"timeout", "error"}}
    \cup UNION {{[ev |-> "datagram", from |-> h, buf |-> b, net |-> n] :
                    b \in Replies(h), n \in Nets(h)} : h \in Hosts}

Datagrams(log) == Len(SelectSeq(log, LAMBDA a : a.ev = "datagram"))

InitDisco ==
    /\ SessionAt([power |-> FALSE, rgb |-> Black, white |-> <<0, 0>>])
    /\ CodecIdle
    /\ DiscoIdle
    /\ ProbeIdle

\* discover() up to its receive loop: bind, set_broadcast and a
\* disco_send to each broadcast address.
Discover ==
    /\ dpc \in {"idle", "done"}
    /\ dmode' = "discover"
    /\ target' = ""
    /\ devs' = <<>>
    /\ heard' = <<>>
    /\ unread' = <<>>
    /\ \/ dpc' = "done" /\ dresult' = Err(BindError)
       \/ dpc' = "done" /\ dresult' = Err(SendError)
       \/ dpc' = "recv" /\ dresult' = NoResult
    /\ UNCHANGED <<svars, codec, probe>>

\* from_address(addr) up to its disco_recv: bind and one disco_send.
FromAddress ==
    /\ dpc \in {"idle", "done"}
    /\ dmode' = "from_address"
    /\ \E h \in Hosts : target' = h
    /\ devs' = <<>>
    /\ heard' = <<>>
    /\ unread' = <<>>
    /\ \/ dpc' = "done" /\ dresult' = Err(BindError)
       \/ dpc' = "done" /\ dresult' = Err(SendError)
       \/ dpc' = "recv" /\ dresult' = NoResult
    /\ UNCHANGED <<svars, codec, probe>>

\* One disco_recv call and what its caller does with the result: the
\* `while let Ok(maybe_dev)` loop of discover, the `?` of from_address.
DiscoRecv ==
    /\ dpc = "recv"
    /\ \E a \in Arrivals :
          /\ a.ev = "datagram" =>
                /\ Datagrams(heard) < MaxDatagrams
                /\ Reaches(a.buf) \/ a.net = NoNet
          /\ \E run \in {disco_recv(a)} :
                /\ heard' = Append(heard, [ev |-> a.ev, from |-> a.from,
                                           buf |-> a.buf, net |-> a.net,
                                           io |-> run.io])
                /\ IF dmode = "discover"
                   THEN IF run.res.ok
                        THEN /\ devs' = IF run.res.resp.kind = "Some"
                                        THEN Append(devs, run.res.resp.val)
                                        ELSE devs
                             /\ UNCHANGED <<dpc, dresult>>
                        ELSE /\ dresult' = discover_result(devs)
                             /\ dpc' = "done"
                             /\ devs' = devs
                   ELSE /\ dresult' = from_address_result(run.res)
                        /\ dpc' = "done"
                        /\ devs' = devs
    /\ UNCHANGED <<dmode, target, unread, svars, codec, probe>>

\* The receive loop of discover has ended before any receive timed out:
\* a reply that reaches the socket within the two seconds nobody waits
\* for any more stays unread.
LateReply ==
    /\ dpc = "done"
    /\ dmode = "discover"
    /\ heard # <<>>
    /\ heard[Len(heard)].ev = "datagram"
    /\ Datagrams(heard) + Len(unread) < MaxDatagrams
    /\ \E a \in Arrivals :
          /\ a.ev = "datagram"
          /\ Reaches(a.buf) \/ a.net = NoNet
          /\ unread' = Append(unread, a)
    /\ UNCHANGED <<dpc, dmode, target, devs, heard, dresult, svars, codec, probe>>

NextDisco == Discover \/ FromAddress \/ DiscoRecv \/ LateReply

SpecDisco == InitDisco /\ [][NextDisco]_vars

(***************************************************************************)
(* refresh, temp::to_kelvin and temp::to_warm_cold on their own: one call  *)
(* on a given state reply, byte pair or temperature.                       *)
(***************************************************************************)
Bytes == 0..255
U16   == 0..65535

\* The kelvin and brightness arguments given to cct_set: every kelvin
\* around and inside [MIN_TEMP, MAX_TEMP] and the ends of u16; brightness
\* n / d below, inside and above [0, 1].
ProbeKelvins == (2700 .. 6600) \cup {0, 65535}
ProbeLevels ==
    {<<-1, 2>>, <<0, 1>>, <<1, 4>>, <<2, 5>>, <<1, 2>>, <<3, 5>>, <<1, 1>>,
     <<3, 2>>, <<2, 1>>}

\* State replies with a good checksum: the bytes refresh never reads and
\* the power byte vary, the other bytes refresh reads are all different.
ProbeReplies ==
    {fin_cmd(<<b[1], b[2], p, b[3], b[4], b[5], 16, 32, 48, 5, b[6], 7, b[7]>>) :
        b \in [1..7 -> {0, 35, 255}], p \in {35, 36, 0, 255}}

InitCalc ==
    /\ SessionAt([power |-> FALSE, rgb |-> Black, white |-> <<0, 0>>])
    /\ CodecIdle
    /\ DiscoIdle
    /\ \/ \E r \in ProbeReplies :
             probe = [fn |-> "refresh", arg |-> r, out |-> <<>>, done |-> FALSE]
       \/ \E w \in Bytes, c \in Bytes :
             probe = [fn |-> "to_kelvin", arg |-> <<w, c>>, out |-> <<>>,
                      done |-> FALSE]
       \/ \E k \in U16 :
             probe = [fn |-> "to_warm_cold", arg |-> <<k>>, out |-> <<>>,
                      done |-> FALSE]
       \/ \E w \in Bytes, c \in Bytes :
             probe = [fn |-> "round_trip", arg |-> <<w, c>>, out |-> <<>>,
                      done |-> FALSE]
       \/ \E k \in ProbeKelvins, b \in ProbeLevels :
             probe = [fn |-> "cct_set", arg |-> <<k, b[1], b[2]>>,
                      out |-> <<>>, done |-> FALSE]

\* refresh(&mut self) on a struct fresh from disco_recv, the lamp
\* answering the state query with probe.arg.
Refresh ==
    /\ probe.fn = "refresh"
    /\ ~probe.done
    /\ probe' = [probe EXCEPT
                    !.done = TRUE,
                    !.out = <<refresh(LedNetDefault(Addr, SUPPORTED[1]),
                                      [connect |-> TRUE, write |-> TRUE,
                                       reply |-> probe.arg])>>]
    /\ UNCHANGED <<svars, codec, dvars>>

ToKelvin ==
    /\ probe.fn = "to_kelvin"
    /\ ~probe.done
    /\ probe' = [probe EXCEPT !.done = TRUE,
                              !.out = <<to_kelvin(probe.arg[1], probe.arg[2])>>]
    /\ UNCHANGED <<svars, codec, dvars>>

ToWarmCold ==
    /\ probe.fn = "to_warm_cold"
    /\ ~probe.done
    /\ probe' = [probe EXCEPT !.done = TRUE,
                              !.out = to_warm_cold(probe.arg[1])]
    /\ UNCHANGED <<svars, codec, dvars>>

\* to_kelvin, to_warm_cold on its result, and to_kelvin on that pair:
\* out = <<k, warm', cold', k'>>.
RoundTrip ==
    /\ probe.fn = "round_trip"
    /\ ~probe.done
    /\ \E k \in {to_kelvin(probe.arg[1], probe.arg[2])} :
         \E wc \in {to_warm_cold(k)} :
            probe' = [probe EXCEPT !.done = TRUE,
                                   !.out = <<k, wc[1], wc[2],
                                             to_kelvin(wc[1], wc[2])>>]
    /\ UNCHANGED <<svars, codec, dvars>>

\* The command frame cct_set(kelvin, brightness) builds, with
\* brightness = (probe.arg[2] as f32) / (probe.arg[3] as f32).
CctSetFrame ==
    /\ probe.fn = "cct_set"
    /\ ~probe.done
    /\ probe' = [probe EXCEPT
                    !.done = TRUE,
                    !.out = cct_set(probe.arg[1],
                                    F32Div(F32FromInt(probe.arg[2]),
                                           F32FromInt(probe.arg[3])))]
    /\ UNCHANGED <<svars, codec, dvars>>

NextCalc == Refresh \/ ToKelvin \/ ToWarmCold \/ RoundTrip \/ CctSetFrame

SpecCalc == InitCalc /\ [][NextCalc]_vars

(***************************************************************************)
(* The generated exec on its own, for a device type that declares any of   *)
(* the command traits in any order: probe.arg is <<the traits in the       *)
(* order of the arms, the command>>, probe.out the handlers called so far  *)
(* with what each returned.                                                *)
(***************************************************************************)
Traits == {"SmartDeviceCommands", "RgbCommands", "CctCommands", "MonoCommands"}

\* Every list of different command traits.
Orders ==
    {s \in UNION {[1..n -> Traits] : n \in 1..Cardinality(Traits)} :
        \A i, j \in 1..Len(s) : i # j => s[i] # s[j]}

\* What the exec of a capability handler may return for a command: the
\* `_` arm for a command it has no arm for, else what its arm returns
\* (the Response of a getter is named after its command).
HandlerResults(trait, name) ==
    IF name \notin Handles(trait) THEN {Err(CommandNotSupported)}
    ELSE IF name \in GetterNames THEN {Ok(Some(name))}
    ELSE {Ok(None), Err(ConnectError)}

InitOrder ==
    /\ SessionAt([power |-> FALSE, rgb |-> Black, white |-> <<0, 0>>])
    /\ CodecIdle
    /\ DiscoIdle
    /\ \E order \in Orders, name \in CommandNames :
          probe = [fn |-> "exec", arg |-> <<order, name>>, out |-> <<>>,
                   done |-> FALSE]

\* The next `match (dev as &mut dyn #cmds).exec(command)` of the arm.
ExecArm ==
    /\ probe.fn = "exec"
    /\ ~probe.done
    /\ Len(probe.out) < Len(probe.arg[1])
    /\ \E res \in HandlerResults(probe.arg[1][Len(probe.out) + 1], probe.arg[2]) :
          probe' = [probe EXCEPT
                      !.out = Append(@, [trait |-> probe.arg[1][Len(probe.out) + 1],
                                         res |-> res]),
                      !.done = ~TriesNext(res)]
    /\ UNCHANGED <<svars, codec, dvars>>

\* Past the last match of the arm: Err(Error::CommandNotSupported).
ExecFallThrough ==
    /\ probe.fn = "exec"
    /\ ~probe.done
    /\ Len(probe.out) = Len(probe.arg[1])
    /\ probe' = [probe EXCEPT
                    !.out = Append(@, [trait |-> "", res |-> Err(CommandNotSupported)]),
                    !.done = TRUE]
    /\ UNCHANGED <<svars, codec, dvars>>

NextOrder == ExecArm \/ ExecFallThrough

SpecOrder == InitOrder /\ [][NextOrder]_vars

(***************************************************************************)
(* Dispatch.                                                               *)
(***************************************************************************)
Last(seq) == seq[Len(seq)]
RECURSIVE Sum(_)
Sum(bytes) == IF bytes = <<>> THEN 0 ELSE Head(bytes) + Sum(Tail(bytes))
InExec == idx # 0 /\ pc # "idle"
DeclaredOrder == <<"RgbCommands", "CctCommands", "SmartDeviceCommands">>

\* C1: on a LedNet device exec tries the handlers in the order Rgb, Cct,
\* base, and invokes a handler only after every handler before it has
\* returned CommandNotSupported for the command; GetAddress goes through
\* Rgb and Cct to the base handler, which handles it.
C1_DeclaredOrder ==
    InExec =>
      /\ Len(invoked) <= Len(DeclaredOrder)
      /\ invoked = SubSeq(DeclaredOrder, 1, Len(invoked))
      /\ Len(returned) \in {Len(invoked) - 1, Len(invoked)}
      /\ \A i \in 1..(Len(invoked) - 1) : returned[i] = Err(CommandNotSupported)
      /\ (pc = "done" /\ command.name = "GetAddress") =>
            /\ invoked = DeclaredOrder
            /\ result.ok
            /\ result.resp.kind = "Address"

C1_Witness ==
    /\ InExec
    /\ pc = "done"
    /\ command.name = "GetAddress"
    /\ invoked = DeclaredOrder
    /\ returned[1] = Err(CommandNotSupported)
    /\ returned[2] = Err(CommandNotSupported)
    /\ result.ok

\* C2: a handler's result other than CommandNotSupported is what exec
\* returns, and no handler is invoked after it; a command of the first
\* declared capability makes exactly one handler invocation.
C2_FirstAcceptorEnds ==
    InExec =>
      /\ (returned # <<>> /\ Last(returned) # Err(CommandNotSupported)) =>
            /\ pc = "done"
            /\ result = Last(returned)
            /\ Len(invoked) = Len(returned)
      /\ (pc = "done" /\ command.name \in RgbNames) =>
            /\ Len(invoked) = 1
            /\ Len(returned) = 1
            /\ result = returned[1]

C2_Witness ==
    /\ InExec
    /\ pc = "done"
    /\ command.name = "RgbSet"
    /\ result.ok
    /\ invoked = <<"RgbCommands">>

\* C3: a command that no capability of LedNet accepts (MonoSet, MonoGet)
\* fails with CommandNotSupported after every declared handler was invoked
\* once, in the declared order, without any network exchange and without a
\* change of the shadow state.
C3_Unsupported ==
    (InExec /\ command.name \in MonoNames) =>
      /\ io = <<>>
      /\ conn = {}
      /\ dev = dev0
      /\ pc = "done" =>
            /\ result = Err(CommandNotSupported)
            /\ invoked = DeclaredOrder
            /\ returned = [i \in 1..3 |-> Err(CommandNotSupported)]

C3_Witness ==
    /\ InExec
    /\ pc = "done"
    /\ command.name = "MonoSet"
    /\ result = Err(CommandNotSupported)
    /\ Len(invoked) = 3

\* C4: a handler's error other than CommandNotSupported is returned by
\* exec as it is, at once: no later handler is invoked.
C4_ErrorEnds ==
    (InExec /\ returned # <<>> /\ ~Last(returned).ok
            /\ Last(returned).err.kind = "Io") =>
      /\ pc = "done"
      /\ result = Last(returned)
      /\ Len(invoked) = Len(returned)

C4_Witness ==
    /\ InExec
    /\ pc = "done"
    /\ result = Err(ChecksumError)
    /\ invoked = <<"RgbCommands">>

(***************************************************************************)
(* The device session.                                                     *)
(***************************************************************************)
SetterNames == {"On", "Off", "RgbSet", "RgbSetExact", "RgbSetColor",
                "RgbSetBrightness", "CctSet", "CctSetTemperature",
                "CctSetBrightness", "set_ww_cw", "set_rgb_cct"}

Writes(log) == SelectSeq(log, LAMBDA e : e.ev = "write")
Attempts(log) == SelectSeq(log, LAMBDA e : e.ev \in {"connect", "connect_failed"})

ShadowIsLamp ==
    /\ dev.is_on = lamp.power
    /\ dev.rgb_color_bytes = lamp.rgb
    /\ dev.cct_bytes = lamp.white

\* C5: a setter that returned Ok made a state query as its last network
\* exchange, after it wrote its command frame; if no other client changed
\* the lamp since that query, the shadow power, RGB bytes and warm/cold
\* bytes are the lamp's.
C5_SetterEndsWithRefresh ==
    (pc = "done" /\ command.name \in SetterNames /\ result.ok) =>
      /\ Len(Writes(io)) >= 2
      /\ Last(Writes(io)).data = GET_STATE_MSG
      /\ Writes(io)[Len(Writes(io)) - 1].data[1] \in {SET_POWER, SET_COLOR}
      /\ Last(io).ev = "close"
      /\ io[Len(io) - 1].ev = "read"
      /\ Len(io[Len(io) - 1].data) = STATE_RESP_LEN
      /\ ~ext => ShadowIsLamp

C5_Witness ==
    /\ pc = "done"
    /\ command.name = "CctSet"
    /\ result.ok
    /\ ~ext
    /\ dev.cct_bytes # dev0.cct_bytes
    /\ dev.cct_bytes = lamp.white

\* What each getter returns, from the lamp as the last successful state
\* query saw it.
Cached(name) ==
    CASE name = "GetAddress"        -> Addr.ip
      [] name = "GetPort"           -> 5577
      [] name = "IsOn"              -> seen.power
      [] name = "RgbGetColor"       -> new_hsv(seen.rgb, F32One)
      [] name = "RgbGetBrightness"  -> hsv_value(seen.rgb)
      [] name = "RgbGetExact"       -> seen.rgb
      [] name = "CctGetTemperature" -> to_kelvin(seen.white[1], seen.white[2])
      [] name = "CctGetBrightness"  -> cct_b(seen.white[1], seen.white[2])

\* C6: the getter commands open no connection, send no frame and leave
\* the shadow state as it was; they return the value cached by the last
\* successful refresh.
C6_GettersAreLocal ==
    (InExec /\ command.name \in GetterNames \ {"MonoGet"}) =>
      /\ io = <<>>
      /\ conn = {}
      /\ dev = dev0
      /\ pc = "done" =>
            /\ result.ok
            /\ result.resp.val = Cached(command.name)

\* A getter answers from the cache while the lamp stores something else.
C6_Witness ==
    /\ InExec
    /\ pc = "done"
    /\ command.name = "RgbGetColor"
    /\ result.ok
    /\ result.resp.val = new_hsv(seen.rgb, F32One)
    /\ seen.rgb # lamp.rgb

\* C7: a refresh() that fails (connect, write, fewer than 14 bytes read,
\* or a 14-byte reply whose last byte is not the sum of the others mod 256)
\* returns the error after one connection attempt and changes no field of
\* the shadow state; a reply with a wrong checksum makes it fail.
C7_FailedRefresh ==
    (pc = "done" /\ command.name = "refresh") =>
      /\ Len(Attempts(io)) = 1
      /\ ~result.ok =>
            /\ dev = dev0
            /\ result.err \in {ConnectError, WriteError, ReadError, ChecksumError}
      /\ \A i \in 1..Len(io) :
            (io[i].ev = "read" /\
             io[i].data[14] # (io[i].data[1] + io[i].data[2] + io[i].data[3]
                 + io[i].data[4] + io[i].data[5] + io[i].data[6] + io[i].data[7]
                 + io[i].data[8] + io[i].data[9] + io[i].data[10] + io[i].data[11]
                 + io[i].data[12] + io[i].data[13]) % 256)
            => (result = Err(ChecksumError) /\ dev = dev0)

C7_Witness ==
    /\ pc = "done"
    /\ command.name = "refresh"
    /\ result = Err(ChecksumError)
    /\ dev = dev0
    /\ ~ShadowIsLamp

Reads(log) == SelectSeq(log, LAMBDA e : e.ev = "read")
PowerWord(name) == IF name = "On" THEN 35 ELSE 36

\* C14: set_on writes the frame <<0x71, 0x23 or 0x24, 0x0f, checksum>> and
\* reads 4 bytes; when these are not <<0x0f, 0x71, the same word, checksum>>
\* it returns the wrong-reply error, makes no state query and leaves the
\* shadow state as it was.
C14_PowerReply ==
    (command.name \in {"On", "Off"} /\ InExec) =>
        LET word  == PowerWord(command.name)
            frame == <<113, word, 15, (113 + word + 15) % 256>>
            ack   == <<15, 113, word, (15 + 113 + word) % 256>>
        IN  /\ Writes(io) # <<>> => Writes(io)[1].data = frame
            /\ Reads(io) # <<>> =>
                  /\ Len(Reads(io)[1].data) = 4
                  /\ Reads(io)[1].data # ack =>
                        /\ pc = "done"
                        /\ result = Err(ReplyError)
                        /\ Len(Writes(io)) = 1
                        /\ Len(Attempts(io)) = 1
                        /\ dev = dev0
                  /\ Reads(io)[1].data = ack =>
                        (pc = "done" => Len(Attempts(io)) = 2)

C14_Witness ==
    /\ InExec
    /\ pc = "done"
    /\ command.name = "On"
    /\ Reads(io) # <<>>
    /\ Reads(io)[1].data = <<15, 113, 35, 164>>
    /\ result = Err(ReplyError)
    /\ lamp.power
    /\ ~dev.is_on

BadChecksum(e) ==
    /\ e.ev = "read"
    /\ Len(e.data) = 14
    /\ e.data[14] # Sum(SubSeq(e.data, 1, 13)) % 256

BadAck(e) ==
    /\ e.ev = "read"
    /\ Len(e.data) = 4
    /\ command.name \in {"On", "Off"}
    /\ e.data # <<15, 113, PowerWord(command.name),
                  (15 + 113 + PowerWord(command.name)) % 256>>

ResponseKind(name) ==
    CASE name = "GetAddress" -> "Address"
      [] name = "GetPort" -> "Port"
      [] name = "IsOn" -> "IsOn"
      [] name \in {"RgbGetColor", "RgbGetExact"} -> "Color"
      [] name \in {"RgbGetBrightness", "CctGetBrightness", "MonoGet"} -> "Brightness"
      [] name = "CctGetTemperature" -> "Temperature"
      [] OTHER -> "None"

\* C16: a command that exec handled successfully yields Ok(None) if it is
\* a setter and one Response of the kind that goes with it if it is a
\* getter.
C16_OneResponse ==
    (InExec /\ pc = "done" /\ result.ok) =>
        /\ result.resp.kind = ResponseKind(command.name)
        /\ command.name \in (SetterNames \cup {"MonoSet"}) => result.resp = None
        /\ result.resp # None => DOMAIN result.resp = {"kind", "val"}

C16_Witness ==
    /\ InExec
    /\ pc = "done"
    /\ command.name = "CctGetTemperature"
    /\ result.ok
    /\ result.resp.kind = "Temperature"
    /\ result.resp.val = 4958

(***************************************************************************)
(* The frame codec.                                                        *)
(***************************************************************************)
\* C8: for every payload of one byte or more, fin_cmd builds the payload
\* followed by the sum of its bytes mod 256; that frame passes the checksum
\* test of refresh, and the frame with its last byte replaced by any other
\* value fails it.
C8_FrameChecksum ==
    /\ codec.stage \in {"frame", "checked"} =>
          /\ Len(codec.payload) >= 1
          /\ Len(codec.frame) = Len(codec.payload) + 1
          /\ SubSeq(codec.frame, 1, Len(codec.payload)) = codec.payload
          /\ ~codec.altered => Last(codec.frame) = Sum(codec.payload) % 256
          /\ codec.altered  => Last(codec.frame) # Sum(codec.payload) % 256
    /\ codec.stage = "checked" => (codec.verdict <=> ~codec.altered)

C8_Witness ==
    /\ codec.stage = "checked"
    /\ codec.verdict
    /\ ~codec.altered
    /\ Sum(codec.payload) > 255

(***************************************************************************)
(* Discovery.                                                              *)
(***************************************************************************)
DiscoDone(mode) == dpc = "done" /\ dmode = mode /\ heard # <<>>

\* The datagrams of the log that disco_recv turned into a device.
Found(log) ==
    SelectSeq(log, LAMBDA a : /\ a.ev = "datagram"
                              /\ Reaches(a.buf)
                              /\ a.net.connect /\ a.net.write
                              /\ Len(a.net.reply) = STATE_RESP_LEN
                              /\ checksum_ok(a.net.reply, STATE_RESP_LEN))

\* C9: when the receive loop of discover meets a receive timeout, discover
\* returns Ok, never Err: Ok(None) if no device was gathered, otherwise
\* Ok(Some) of exactly the devices gathered, in the order they arrived.
C9_TimeoutEndsDiscover ==
    (DiscoDone("discover") /\ Last(heard).ev = "timeout") =>
        /\ dresult.ok
        /\ Found(heard) = <<>> => dresult.resp = None
        /\ Found(heard) # <<>> =>
              /\ dresult.resp.kind = "Some"
              /\ Len(dresult.resp.val) = Len(Found(heard))
              /\ \A i \in 1..Len(Found(heard)) :
                    /\ dresult.resp.val[i].addr.ip = Found(heard)[i].from
                    /\ dresult.resp.val[i] =
                          decode_state(
                            LedNetDefault([ip |-> Found(heard)[i].from, port |-> PORT],
                                          SUPPORTED[1]),
                            Found(heard)[i].net.reply)

C9_Witness ==
    /\ DiscoDone("discover")
    /\ Last(heard).ev = "timeout"
    /\ Len(heard) = 3
    /\ dresult.ok
    /\ dresult.resp.kind = "Some"
    /\ Len(dresult.resp.val) = 2
    /\ dresult.resp.val[1].addr.ip = "192.168.1.77"
    /\ dresult.resp.val[2].addr.ip = "192.168.1.212"

Usable(a) ==
    /\ a.ev = "datagram"
    /\ a.net.connect /\ a.net.write
    /\ Len(a.net.reply) = STATE_RESP_LEN
    /\ a.net.reply[STATE_RESP_LEN]
         = Sum(SubSeq(a.net.reply, 1, STATE_RESP_LEN - 1)) % 256

Commas(buf) == {i \in 1..Len(buf) : buf[i] = ","}
KthComma(buf, k) ==
    IF Cardinality(Commas(buf)) < k THEN Len(buf) + 1
    ELSE CHOOSE i \in Commas(buf) :
            Cardinality({j \in Commas(buf) : j < i}) = k - 1

\* The text between the second comma and the third (or the end).
ThirdField(buf) == SubSeq(buf, KthComma(buf, 2) + 1, KthComma(buf, 3) - 1)

\* A reply that is not UTF-8, has fewer than three fields, or whose third
\* field is not exactly an allow-listed model id.
Skipped(buf) ==
    \/ \E i \in 1..Len(buf) : buf[i] = NotUtf8
    \/ Cardinality(Commas(buf)) < 2
    \/ \A k \in 1..Len(SUPPORTED) : ThirdField(buf) # <<SUPPORTED[k]>>

\* C11 as stated: when the refresh of a supported device fails during
\* discover, only that reply is dropped: every supported device whose
\* reply reaches the socket afterwards, before the timeout, and whose
\* refresh succeeds is in the list discover returns.
C11_ScanContinues ==
    (dpc = "done" /\ dmode = "discover") =>
        \A i \in 1..Len(unread) :
            (~Skipped(unread[i].buf) /\ Usable(unread[i])) =>
                /\ dresult.ok
                /\ dresult.resp.kind = "Some"
                /\ \E j \in 1..Len(dresult.resp.val) :
                      dresult.resp.val[j].addr.ip = unread[i].from

\* C12: from_address returns Err, the error of the refresh, when the reply
\* names a supported model and the first refresh of the device fails.
C12_FailedRefreshIsError ==
    (/\ DiscoDone("from_address")
     /\ Last(heard).ev = "datagram"
     /\ ~Skipped(Last(heard).buf)
     /\ ~Usable(Last(heard))) =>
        /\ ~dresult.ok
        /\ dresult.resp = None
        /\ dresult.err =
              IF ~Last(heard).net.connect THEN ConnectError
              ELSE IF ~Last(heard).net.write THEN WriteError
              ELSE IF Len(Last(heard).net.reply) < STATE_RESP_LEN THEN ReadError
              ELSE ChecksumError

C12_Witness ==
    /\ DiscoDone("from_address")
    /\ Last(heard).ev = "datagram"
    /\ ~Skipped(Last(heard).buf)
    /\ Last(heard).io = <<"connect", "write", "read_failed">>
    /\ dresult = Err(ReadError)

\* C13: a reply that is not UTF-8, has fewer than three comma-separated
\* fields, or whose third field is not exactly an allow-listed model id is
\* skipped: no connection is opened for it, it is no error (discover goes
\* on receiving, from_address returns Ok(None)), and a discover that
\* receives only such replies before the timeout returns Ok(None).
C13_SkippedReplies ==
    /\ \A i \in 1..Len(heard) :
          heard[i].ev = "datagram" =>
            IF Skipped(heard[i].buf)
            THEN /\ heard[i].io = <<>>
                 /\ dmode = "discover" => (i < Len(heard) \/ dpc = "recv")
                 /\ dmode = "from_address" => dresult = Ok(None)
            ELSE heard[i].io # <<>>
    /\ (/\ DiscoDone("discover")
        /\ Last(heard).ev = "timeout"
        /\ \A i \in 1..(Len(heard) - 1) :
              heard[i].ev = "datagram" /\ Skipped(heard[i].buf)) =>
          dresult = Ok(None)

C13_Witness ==
    /\ DiscoDone("discover")
    /\ Len(heard) = 3
    /\ \E i \in 1..Len(heard[1].buf) : heard[1].buf[i] = NotUtf8
    /\ ThirdField(heard[2].buf) = <<"HF-LPB100-ZJ200", "\n">>
    /\ Last(heard).ev = "timeout"
    /\ dresult = Ok(None)

(***************************************************************************)
(* Decoding and the temperature conversions.                               *)
(***************************************************************************)
Refreshed == probe.fn = "refresh" /\ probe.done

\* C17: refresh on a 14-byte reply with a good checksum succeeds and sets
\* is_on to (byte [2] = 0x23), the RGB bytes to bytes [6], [7], [8] and the
\* warm/cold bytes to bytes [9] and [11], whatever the other bytes are
\* (offsets counted from 0 as in the source, from 1 below).
C17_DecodeOffsets ==
    Refreshed =>
        /\ probe.out[1].res.ok
        /\ probe.out[1].dev.is_on = (probe.arg[3] = 35)
        /\ probe.out[1].dev.rgb_color_bytes = <<probe.arg[7], probe.arg[8], probe.arg[9]>>
        /\ probe.out[1].dev.rgb_color_bytes = <<16, 32, 48>>
        /\ probe.out[1].dev.cct_bytes = <<probe.arg[10], probe.arg[12]>>
        /\ probe.out[1].dev.cct_bytes = <<5, 7>>

C17_Witness ==
    /\ Refreshed
    /\ probe.arg[3] = 35
    /\ probe.arg[2] = 255
    /\ probe.arg[4] = 0
    /\ probe.arg[11] = 35
    /\ probe.out[1].dev.is_on
    /\ probe.out[1].dev.cct_bytes = <<5, 7>>

\* C18 as stated: after a successful refresh the shadow CCT brightness
\* lies in [0, 1].
C18_BrightnessInUnit ==
    /\ ~F32Lt(dev.cct_brightness, F32Zero)
    /\ ~F32Lt(F32One, dev.cct_brightness)

\* C19: to_kelvin(0, 0) is 0, and for every other byte pair the result
\* lies in [2800, 6500].
C19_KelvinRange ==
    (probe.fn = "to_kelvin" /\ probe.done) =>
        IF probe.arg = <<0, 0>> THEN probe.out = <<0>>
        ELSE probe.out[1] >= 2800 /\ probe.out[1] <= 6500

C19_Witness ==
    /\ probe.fn = "to_kelvin"
    /\ probe.done
    /\ probe.arg = <<255, 255>>
    /\ probe.out = <<4650>>

\* C20: to_warm_cold maps every kelvin <= 2800 to (255, 0), every kelvin
\* >= 6500 to (0, 255), and a kelvin between them to
\* (ceil(255 (1 - t)), ceil(255 t)) with t = (kelvin - 2800) / 3700; both
\* are bytes.
C20_WarmCold ==
    (probe.fn = "to_warm_cold" /\ probe.done) =>
        LET k == probe.arg[1]
        IN  /\ probe.out[1] \in Bytes /\ probe.out[2] \in Bytes
            /\ k <= 2800 => probe.out = <<255, 0>>
            /\ k >= 6500 => probe.out = <<0, 255>>
            /\ (k > 2800 /\ k < 6500) =>
                  /\ probe.out[1] = (255 * (6500 - k) + 3699) \div 3700
                  /\ probe.out[2] = (255 * (k - 2800) + 3699) \div 3700

C20_Witness ==
    /\ probe.fn = "to_warm_cold"
    /\ probe.done
    /\ probe.arg = <<4000>>
    /\ probe.out = <<173, 83>>

\* C21: for every warm/cold byte pair with both bytes nonzero, converting
\* to Kelvin, back to a byte pair and to Kelvin again moves the Kelvin value
\* by at most 300.
C21_RoundTrip ==
    (probe.fn = "round_trip" /\ probe.done
        /\ probe.arg[1] # 0 /\ probe.arg[2] # 0) =>
        /\ probe.out[4] - probe.out[1] <= 300
        /\ probe.out[1] - probe.out[4] <= 300

\* The lossy case: (1, 14) reads 6253 K, is rebuilt as (18, 238), and that
\* pair reads 6239 K.
C21_Witness ==
    /\ probe.fn = "round_trip"
    /\ probe.done
    /\ probe.arg = <<1, 14>>
    /\ probe.out = <<6253, 18, 238, 6239>>

\* C22: cct_set builds a frame for every brightness; its warm and cold
\* bytes are the to_warm_cold channels times the brightness clamped to
\* [0, 1], truncated: the channels themselves for a brightness >= 1, (0, 0)
\* for a brightness <= 0, and never more than the channels.
C22_ClampedBrightness ==
    (probe.fn = "cct_set" /\ probe.done) =>
        LET unscaled == to_warm_cold(probe.arg[1])
            n        == probe.arg[2]
            d        == probe.arg[3]
            sent     == <<probe.out[5], probe.out[6]>>
        IN  /\ Len(probe.out) = 9
            /\ probe.out[7] = 15
            /\ n >= d => sent = unscaled
            /\ n <= 0 => sent = <<0, 0>>
            /\ (0 < n /\ n < d) =>
                   sent = <<(unscaled[1] * n) \div d, (unscaled[2] * n) \div d>>
            /\ sent[1] <= unscaled[1] /\ sent[2] <= unscaled[2]

\* cct_set(4000, 1.5) sends the unscaled channels (173, 83).
C22_Witness ==
    /\ probe.fn = "cct_set"
    /\ probe.done
    /\ probe.arg = <<4000, 3, 2>>
    /\ probe.out[5] = 173
    /\ probe.out[6] = 83

\* The connections opened and not yet closed by the first n events of log.
OpenAfter(log, n) ==
    {id \in 1..n :
        \E i \in 1..n :
            /\ log[i].ev = "connect" /\ log[i].id = id
            /\ \A j \in (i + 1)..n : ~(log[j].ev = "close" /\ log[j].id = id)}

\* C23: every exchange has a connection of its own, closed when the
\* exchange ends, successfully or not.  At most one connection is open;
\* none is open between calls nor between the exchanges of a call; a
\* connection is opened only when none is open; every frame written and
\* every reply read travels on the one connection opened for it, so no two
\* frames of a call share a connection.
C23_OwnConnection ==
    /\ Cardinality(conn) <= 1
    /\ pc \in {"idle", "dispatch", "connect", "done"} => conn = {}
    /\ conn = OpenAfter(io, Len(io))
    /\ \A i \in 1..Len(io) :
          /\ io[i].ev \in {"connect", "connect_failed"} =>
                OpenAfter(io, i - 1) = {}
          /\ io[i].ev \in {"write", "read", "read_failed", "close"} =>
                OpenAfter(io, i - 1) = {io[i].id}
    /\ \A i, j \in 1..Len(Writes(io)) :
          i # j => Writes(io)[i].id # Writes(io)[j].id

\* A state-dependent setter has returned Ok: its three frames went over
\* the connections 1, 2 and 3, and none is left open.
C23_Witness ==
    /\ pc = "done"
    /\ result = Ok(None)
    /\ command.name = "CctSetBrightness"
    /\ Len(Writes(io)) = 3
    /\ Writes(io)[2].id = 2
    /\ Writes(io)[3].id = 3
    /\ conn = {}

\* C24: on a lamp that another client may change at any point, a setter
\* that returned Ok leaves the shadow power, RGB bytes and warm/cold bytes
\* equal to those of the state reply its last state query read, which are
\* the lamp's at the time of that query; a change the other client made
\* after that query is in the lamp and not in the shadow state.
C24_ShadowIsLastQuery ==
    (pc = "done" /\ command.name \in SetterNames /\ result.ok) =>
        LET reply == io[Len(io) - 1]
        IN  /\ reply.ev = "read"
            /\ Len(reply.data) = STATE_RESP_LEN
            /\ dev.is_on = (reply.data[3] = 35)
            /\ dev.rgb_color_bytes =
                  <<reply.data[7], reply.data[8], reply.data[9]>>
            /\ dev.cct_bytes = <<reply.data[10], reply.data[12]>>
            /\ dev.is_on = seen.power
            /\ dev.rgb_color_bytes = seen.rgb
            /\ dev.cct_bytes = seen.white
            /\ ext => (lamp.white = <<255, 255>> /\ lamp.rgb = seen.rgb
                          /\ lamp.power = seen.power)

\* The other client changed the lamp before the setter's write and again
\* after its last state query: the shadow state holds what the setter
\* wrote, the lamp what the other client set.
C24_Witness ==
    /\ pc = "done"
    /\ command.name = "CctSet"
    /\ result.ok
    /\ ext
    /\ Writes(io)[1].data[5] # 255
    /\ dev.cct_bytes = <<Writes(io)[1].data[5], Writes(io)[1].data[6]>>
    /\ lamp.white = <<255, 255>>
    /\ dev0.cct_bytes = <<255, 255>>

\* C25: on a lamp that stores the white channels it is sent, a successful
\* cct_set_temperature leaves the shadow CCT brightness at the value its
\* first state query reported.
C25_BrightnessKept ==
    (pc = "done" /\ command.name = "CctSetTemperature" /\ result.ok) =>
        dev.cct_brightness =
            cct_b(Reads(io)[1].data[10], Reads(io)[1].data[12])

\* cct_set_temperature(2000) on the white channels (5, 7), brightness
\* 12/255: the lamp is sent (11, 0), brightness 11/255.
C25_Witness ==
    /\ pc = "done"
    /\ command.name = "CctSetTemperature"
    /\ command.kelvin = 2000
    /\ result.ok
    /\ Reads(io)[1].data[10] = 5
    /\ Reads(io)[1].data[12] = 7
    /\ lamp.white = <<11, 0>>
    /\ dev.cct_brightness = cct_b(11, 0)
    /\ dev.cct_brightness # cct_b(5, 7)

\* C26: on a lamp that stores the white channels it is sent, a successful
\* cct_set_brightness leaves the shadow CCT temperature within 300 K of
\* the temperature its first state query reported, whatever the white
\* channels were, both zero included.
C26_TemperatureKept ==
    (pc = "done" /\ command.name = "CctSetBrightness" /\ result.ok) =>
        LET before == to_kelvin(Reads(io)[1].data[10], Reads(io)[1].data[12])
        IN  /\ dev.cct_temperature - before <= 300
            /\ before - dev.cct_temperature <= 300

\* cct_set_brightness(0.4) on the white channels (0, 0), temperature 0:
\* the lamp is sent (102, 0), temperature 2800.
C26_Witness ==
    /\ pc = "done"
    /\ command.name = "CctSetBrightness"
    /\ command.brightness = TwoFifths
    /\ result.ok
    /\ Reads(io)[1].data[10] = 0
    /\ Reads(io)[1].data[12] = 0
    /\ lamp.white = <<102, 0>>
    /\ dev.cct_temperature = 2800

StateDependent ==
    {"RgbSetColor", "RgbSetBrightness", "CctSetTemperature", "CctSetBrightness"}

\* The frame a state-dependent setter c sends when the state reply r is
\* what it knows of the lamp.
FrameAfter(c, r) ==
    CASE c.name = "RgbSetColor" ->
            rgb_set(c.color, hsv_value(<<r[7], r[8], r[9]>>))
      [] c.name = "RgbSetBrightness" ->
            rgb_set(new_hsv(<<r[7], r[8], r[9]>>, F32One), c.brightness)
      [] c.name = "CctSetTemperature" ->
            cct_set(c.kelvin, cct_b(r[10], r[12]))
      [] c.name = "CctSetBrightness" ->
            cct_set(to_kelvin(r[10], r[12]), c.brightness)

\* C27: rgb_set_color, rgb_set_brightness, cct_set_temperature and
\* cct_set_brightness write, in this order and nothing else, the state
\* query, the color-set frame and the state query.  The color-set frame is
\* written only after the first query was answered with a reply that
\* passed the checksum test, and it is computed from that reply, not from
\* the shadow state the call started with.
C27_QueryWriteQuery ==
    command.name \in StateDependent =>
        LET W == Writes(io)
        IN  /\ Len(W) <= 3
            /\ Len(W) >= 1 => W[1].data = GET_STATE_MSG
            /\ Len(W) >= 2 =>
                  /\ Len(Reads(io)) >= 1
                  /\ checksum_ok(Reads(io)[1].data, STATE_RESP_LEN)
                  /\ W[2].data[1] = SET_COLOR
                  /\ W[2].data = FrameAfter(command, Reads(io)[1].data)
            /\ Len(W) = 3 => W[3].data = GET_STATE_MSG
            /\ (pc = "done" /\ result.ok) => Len(W) = 3

\* The shadow state held the white channels (5, 7) when
\* cct_set_temperature(4650) was called; its first query read (255, 255),
\* brightness 2.0, and it sent to_warm_cold(4650) = (128, 128) unscaled.
C27_Witness ==
    /\ pc = "done"
    /\ result.ok
    /\ command.name = "CctSetTemperature"
    /\ command.kelvin = 4650
    /\ dev0.cct_bytes = <<5, 7>>
    /\ Reads(io)[1].data[10] = 255
    /\ Reads(io)[1].data[12] = 255
    /\ Writes(io)[2].data[5] = 128
    /\ Writes(io)[2].data[6] = 128

\* C28: the color-set frame of set_rgb_cct carries a write mask with every
\* bit of WRITE_COLORS (0xf0) and every bit of WRITE_WHITES (0x0f); the
\* RGB setters send the mask 0xf0 and zero white bytes, the CCT setters
\* and set_ww_cw the mask 0x0f and zero RGB bytes.
C28_MaskEnablesBoth ==
    \A i \in 1..Len(Writes(io)) :
        LET frame == Writes(io)[i].data
        IN  frame[1] = SET_COLOR =>
              /\ command.name = "set_rgb_cct" =>
                    /\ BitAnd(frame[7], 240) = 240
                    /\ BitAnd(frame[7], 15) = 15
              /\ command.name \in RgbNames =>
                    /\ frame[7] = 240
                    /\ frame[5] = 0 /\ frame[6] = 0
              /\ command.name \in CctNames \cup {"set_ww_cw"} =>
                    /\ frame[7] = 15
                    /\ frame[2] = 0 /\ frame[3] = 0 /\ frame[4] = 0

\* set_rgb_cct((16, 32, 48), 4650) returned Ok after sending its frame
\* with the mask byte 0.
C28_Witness ==
    /\ pc = "done"
    /\ result.ok
    /\ command.name = "set_rgb_cct"
    /\ Writes(io)[1].data =
          fin_cmd(<<49, 16, 32, 48, 128, 128, 0, 15>>)

\* The same property for the RGB and CCT setters alone.
C28_SingleGroupMasks ==
    \A i \in 1..Len(Writes(io)) :
        LET frame == Writes(io)[i].data
        IN  frame[1] = SET_COLOR =>
              /\ command.name \in RgbNames =>
                    /\ frame[7] = 240
                    /\ frame[5] = 0 /\ frame[6] = 0
              /\ command.name \in CctNames \cup {"set_ww_cw"} =>
                    /\ frame[7] = 15
                    /\ frame[2] = 0 /\ frame[3] = 0 /\ frame[4] = 0

\* C29: a device that from_address(addr) returns has the IP address addr
\* and the port 5577, whichever host sent the datagram that the one
\* disco_recv of the call received.
C29_AddressIsTarget ==
    (DiscoDone("from_address") /\ dresult.ok /\ dresult.resp.kind = "Some") =>
        /\ dresult.resp.val.addr.ip = target
        /\ dresult.resp.val.addr.port = 5577

\* from_address("192.168.1.212") received the reply of 192.168.1.77 and
\* returned that lamp.
C29_Witness ==
    /\ DiscoDone("from_address")
    /\ target = "192.168.1.212"
    /\ Len(heard) = 1
    /\ heard[1].from = "192.168.1.77"
    /\ dresult.ok
    /\ dresult.resp.kind = "Some"
    /\ dresult.resp.val.addr = [ip |-> "192.168.1.77", port |-> 5577]
    /\ dresult.resp.val.cct_bytes = <<0, 0>>

\* The port of every device from_address returns is 5577.
C29_PortIsControlPort ==
    (DiscoDone("from_address") /\ dresult.ok /\ dresult.resp.kind = "Some") =>
        dresult.resp.val.addr.port = 5577

\* C30: the receive loop of discover ends at the first receive that times
\* out or fails and not before: when discover has returned from the loop,
\* the last receive timed out or failed and every receive before it
\* delivered a datagram; while it has not returned, every receive so far
\* delivered a datagram.
C30_EndsOnlyOnReceiveFailure ==
    (dmode = "discover" /\ heard # <<>>) =>
        /\ \A i \in 1..(Len(heard) - 1) : heard[i].ev = "datagram"
        /\ dpc = "recv" => Last(heard).ev = "datagram"
        /\ dpc = "done" => Last(heard).ev \in {"timeout", "error"}

\* discover returned Ok(None) right after receiving the reply of a lamp
\* whose state query got no connection: no receive timed out or failed.
C30_Witness ==
    /\ DiscoDone("discover")
    /\ Len(heard) = 1
    /\ heard[1].ev = "datagram"
    /\ Reaches(heard[1].buf)
    /\ heard[1].io = <<"connect_failed">>
    /\ dresult = Ok(None)

\* The loop goes on after every receive that delivered a datagram, unless
\* the state query of the lamp it names failed, and ends at the first
\* receive that timed out or failed.
C30_LoopEnds ==
    (dmode = "discover" /\ heard # <<>>) =>
        /\ \A i \in 1..(Len(heard) - 1) :
              /\ heard[i].ev = "datagram"
              /\ Reaches(heard[i].buf) => Usable(heard[i])
        /\ dpc = "recv" <=>
              /\ Last(heard).ev = "datagram"
              /\ Reaches(Last(heard).buf) => Usable(Last(heard))

\* C31: no two devices of the list discover returns have the same
\* address, also when a lamp's reply is received more than once.
C31_NoDuplicates ==
    (DiscoDone("discover") /\ dresult.ok /\ dresult.resp.kind = "Some") =>
        \A i, j \in 1..Len(dresult.resp.val) :
            i # j => dresult.resp.val[i].addr # dresult.resp.val[j].addr

\* The lamp at 192.168.1.212 answered twice before the receive timeout and
\* is in the list twice.
C31_Witness ==
    /\ DiscoDone("discover")
    /\ Len(heard) = 3
    /\ heard[1].from = "192.168.1.212"
    /\ heard[2].from = "192.168.1.212"
    /\ heard[3].ev = "timeout"
    /\ dresult.ok
    /\ dresult.resp.kind = "Some"
    /\ Len(dresult.resp.val) = 2
    /\ dresult.resp.val[1] = dresult.resp.val[2]
    /\ dresult.resp.val[1].addr = [ip |-> "192.168.1.212", port |-> 5577]

(***************************************************************************)
(* The command sets of the capability handlers.                            *)
(***************************************************************************)
\* The declared traits that have an arm for the command.
Acceptors(order, name) ==
    {t \in {order[i] : i \in 1..Len(order)} : name \in Handles(t)}

\* C32: the command sets of SmartDeviceCommands, RgbCommands, CctCommands
\* and MonoCommands are pairwise disjoint and cover the 19 Command
\* variants, so exactly one of the four has an arm for each command.  On a
\* device type declaring any of them in any order, exec returns what the
\* one declared handler with an arm for the command returned, after
\* refusals only, or Err(CommandNotSupported) after every handler refused
\* when none has an arm: which handler decides depends on the set of
\* declared traits, not on their order.
C32_OneAcceptor ==
    /\ \A a, b \in Traits : a # b => Handles(a) \cap Handles(b) = {}
    /\ UNION {Handles(t) : t \in Traits} = CommandNames
    /\ Cardinality(CommandNames) = 19
    /\ \A n \in CommandNames : Cardinality({t \in Traits : n \in Handles(t)}) = 1
    /\ (probe.fn = "exec" /\ probe.done) =>
          LET order == probe.arg[1]
              name  == probe.arg[2]
              out   == probe.out
          IN  /\ Cardinality(Acceptors(order, name)) <= 1
              /\ \A i \in 1..(Len(out) - 1) :
                    /\ out[i].trait \notin Acceptors(order, name)
                    /\ out[i].res = Err(CommandNotSupported)
              /\ Acceptors(order, name) = {} =>
                    /\ Len(out) = Len(order) + 1
                    /\ Last(out).res = Err(CommandNotSupported)
              /\ Acceptors(order, name) # {} =>
                    /\ Acceptors(order, name) = {Last(out).trait}
                    /\ Last(out).res \in HandlerResults(Last(out).trait, name)
                    /\ Last(out).res # Err(CommandNotSupported)

\* With SmartDeviceCommands declared first and RgbCommands last,
\* RgbGetBrightness is still answered by RgbCommands, after three refusals.
C32_Witness ==
    /\ probe.fn = "exec"
    /\ probe.done
    /\ probe.arg = <<<<"SmartDeviceCommands", "MonoCommands", "CctCommands",
                       "RgbCommands">>, "RgbGetBrightness">>
    /\ Len(probe.out) = 4
    /\ probe.out[4] = [trait |-> "RgbCommands", res |-> Ok(Some("RgbGetBrightness"))]

====
